---- MODULE Spec2Model ----
(***************************************************************************)
(* A model of the JCSV format engine: the metadata grammar parser          *)
(* (_split_top_commas, _parse_metadata), the parser parse_jcsv (manifest   *)
(* reader, block scanner / table builder, reference resolver) and the      *)
(* writer export_jcsv.                                                     *)
(*                                                                         *)
(* Text is a sequence of one-character strings; a file is a sequence of    *)
(* lines, each line a text without its terminating newline.                *)
(***************************************************************************)
EXTENDS Integers, Sequences, FiniteSets, TLC

(***************************************************************************)
(* Bounds of the model.                                                    *)
(***************************************************************************)
\* longest metadata string enumerated exhaustively over MetaAlphabet
MaxStr == 3
\* most tables in a table map given to export_jcsv
MaxTables == 2
\* most rows in a table given to export_jcsv
MaxRows == 2
\* most blocks in a document given to parse_jcsv
MaxBlocks == 2

(***************************************************************************)
(* Text primitives (Python str methods used by the code).                  *)
(***************************************************************************)
Whitespace == {" "}

Digits == <<"0", "1", "2", "3", "4", "5", "6", "7", "8", "9">>

\* [A-Za-z0-9_] of header_re
IdentChars ==
    {"A", "B", "C", "D", "E", "F", "G", "H", "I", "J", "K", "L", "M",
     "N", "O", "P", "Q", "R", "S", "T", "U", "V", "W", "X", "Y", "Z",
     "a", "b", "c", "d", "e", "f", "g", "h", "i", "j", "k", "l", "m",
     "n", "o", "p", "q", "r", "s", "t", "u", "v", "w", "x", "y", "z",
     "0", "1", "2", "3", "4", "5", "6", "7", "8", "9", "_"}

Range(f) == {f[k] : k \in DOMAIN f}

\* s[a..b] with 1-based inclusive indices, empty when a > b
Slice(s, a, b) == IF a > b THEN << >> ELSE SubSeq(s, a, b)

RECURSIVE lstrip(_)
lstrip(s) ==
    IF s # << >> /\ Head(s) \in Whitespace THEN lstrip(Tail(s)) ELSE s

RECURSIVE rstrip(_)
rstrip(s) ==
    IF s # << >> /\ s[Len(s)] \in Whitespace
    THEN rstrip(Slice(s, 1, Len(s) - 1))
    ELSE s

strip(s) == rstrip(lstrip(s))

Contains(s, ch) == \E k \in 1..Len(s) : s[k] = ch

\* index of the first occurrence of ch in s (0 when there is none)
Find(s, ch) ==
    IF Contains(s, ch)
    THEN CHOOSE k \in 1..Len(s) : s[k] = ch /\ \A j \in 1..(k - 1) : s[j] # ch
    ELSE 0

startswith(s, ch) == s # << >> /\ s[1] = ch

endswith(s, ch) == s # << >> /\ s[Len(s)] = ch

\* s.split(ch, 1) of a text that contains ch: the two halves
SplitFirst(s, ch) ==
    << Slice(s, 1, Find(s, ch) - 1), Slice(s, Find(s, ch) + 1, Len(s)) >>

\* s[1:-1]
Inner(s) == Slice(s, 2, Len(s) - 1)

RECURSIVE Join(_, _)
Join(parts, sep) ==
    IF parts = << >> THEN << >>
    ELSE IF Len(parts) = 1 THEN parts[1]
    ELSE parts[1] \o sep \o Join(Tail(parts), sep)

(***************************************************************************)
(* _split_top_commas: the loop over the characters of s, with the code's   *)
(* accumulators parts, buf and depth.                                      *)
(***************************************************************************)
RECURSIVE SplitLoop(_, _, _, _, _)
SplitLoop(s, k, parts, buf, depth) ==
    IF k > Len(s) THEN Append(parts, strip(buf))
    ELSE LET ch == s[k]
             d  == IF ch = "[" THEN depth + 1
                   ELSE IF ch = "]" THEN depth - 1
                   ELSE depth
         IN  IF ch = "," /\ d = 0
             THEN SplitLoop(s, k + 1, Append(parts, strip(buf)), << >>, d)
             ELSE SplitLoop(s, k + 1, parts, Append(buf, ch), d)

_split_top_commas(s) == SplitLoop(s, 1, << >>, << >>, 0)

(***************************************************************************)
(* _parse_metadata.  A metadata value is a record: a Scalar                *)
(* [kind |-> "scalar", s], a List [kind |-> "list", items] or, under key   *)
(* dtypes, a Map [kind |-> "map", map].  The dict md is a function from    *)
(* keys (texts) to values; a later token with the same key overrides.      *)
(***************************************************************************)
K_dtypes == <<"d", "t", "y", "p", "e", "s">>
K_refs   == <<"r", "e", "f", "s">>

EmptyDict == << >>

\* d[key] = val
DictSet(d, key, val) == (key :> val) @@ d

IsQuoted(it) ==
    \/ startswith(it, "\"") /\ endswith(it, "\"")
    \/ startswith(it, "'") /\ endswith(it, "'")

StripQuotes(it) == IF IsQuoted(it) THEN Inner(it) ELSE it

\* the list branch: items of val[1:-1], each stripped and quote-stripped
ListItems(val) ==
    LET items == _split_top_commas(strip(Inner(val)))
    IN  [k \in 1..Len(items) |-> StripQuotes(strip(items[k]))]

\* variant: a scalar keeps its quotes
MetaValue_KeepQuotes(val) ==
    IF startswith(val, "[") /\ endswith(val, "]")
    THEN [kind |-> "list", items |-> ListItems(val)]
    ELSE [kind |-> "scalar", s |-> val]

\* the value stored for one token's val
MetaValue(val) ==
    IF startswith(val, "[") /\ endswith(val, "]")
    THEN [kind |-> "list", items |-> ListItems(val)]
    ELSE [kind |-> "scalar", s |-> StripQuotes(val)]

RECURSIVE TokenLoop(_, _)
TokenLoop(tokens, md) ==
    IF tokens = << >> THEN md
    ELSE LET token == Head(tokens)
         IN  IF ~Contains(token, "=") THEN TokenLoop(Tail(tokens), md)
             ELSE LET kv  == SplitFirst(token, "=")
                      key == strip(kv[1])
                      val == strip(kv[2])
                  IN  TokenLoop(Tail(tokens), DictSet(md, key, MetaValue(val)))

\* what `for item in md['dtypes']` iterates: the items of a list, the
\* characters of a string
IterItems(v) ==
    IF v.kind = "list" THEN v.items
    ELSE [k \in 1..Len(v.s) |-> << v.s[k] >>]

RECURSIVE DtypesLoop(_, _)
DtypesLoop(items, dt) ==
    IF items = << >> THEN dt
    ELSE LET item == Head(items)
         IN  IF ~Contains(item, ":") THEN DtypesLoop(Tail(items), dt)
             ELSE LET ct == SplitFirst(item, ":")
                  IN  DtypesLoop(Tail(items),
                                 DictSet(dt, strip(ct[1]), strip(ct[2])))

_parse_metadata(s) ==
    LET md == TokenLoop(_split_top_commas(s), EmptyDict)
    IN  IF K_dtypes \in DOMAIN md
        THEN DictSet(md, K_dtypes,
                     [kind |-> "map",
                      map  |-> DtypesLoop(IterItems(md[K_dtypes]), EmptyDict)])
        ELSE md

(***************************************************************************)
(* Inputs of the metadata grammar: every text of at most MaxStr characters *)
(* over MetaAlphabet, the same texts as the value or list of a dtypes key,  *)
(* and the documented examples.                                            *)
(***************************************************************************)
MetaAlphabet == {"a", ",", "[", "]", "=", ":", " ", "\""}

RECURSIVE TextsUpTo(_, _)
TextsUpTo(alphabet, n) ==
    IF n = 0 THEN { << >> }
    ELSE LET shorter == TextsUpTo(alphabet, n - 1)
         IN  shorter \cup {Append(t, ch) : t \in shorter, ch \in alphabet}

\* a,[b,c],d
Ex_split == <<"a", ",", "[", "b", ",", "c", "]", ",", "d">>

\* dtypes=[id:int,name:str],refs=[orders]
Ex_meta ==
    K_dtypes \o <<"=", "[", "i", "d", ":", "i", "n", "t", ",",
                  "n", "a", "m", "e", ":", "s", "t", "r", "]", ",">>
    \o K_refs \o <<"=", "[", "o", "r", "d", "e", "r", "s", "]">>

\* x='a b',y
Ex_quote == <<"x", "=", "'", "a", " ", "b", "'", ",", "y">>

MetaInputs ==
    LET short == TextsUpTo(MetaAlphabet, MaxStr)
    IN  short
        \cup {K_dtypes \o <<"=">> \o t : t \in short}
        \cup {K_dtypes \o <<"=", "[">> \o t \o <<"]">> : t \in short}
        \cup {Ex_split, Ex_meta, Ex_quote}

(***************************************************************************)
(* Numbers and their text: str(n), int(text), repr of a float, and the     *)
(* numeric literals read_csv recognises.  A float is the decimal m / 10^e, *)
(* kept normalised (no trailing zero digit in the fraction).  The texts of *)
(* the model carry no exponent.                                            *)
(***************************************************************************)
IsDigit(ch) == \E d \in 1..10 : Digits[d] = ch

DigitVal(ch) == CHOOSE d \in 0..9 : Digits[d + 1] = ch

AllDigits(s) == s # << >> /\ \A k \in 1..Len(s) : IsDigit(s[k])

RECURSIVE ParseNat(_)
ParseNat(s) ==
    IF s = << >> THEN 0
    ELSE ParseNat(Slice(s, 1, Len(s) - 1)) * 10 + DigitVal(s[Len(s)])

RECURSIVE StrNat(_)
StrNat(n) ==
    IF n < 10 THEN << Digits[n + 1] >>
    ELSE StrNat(n \div 10) \o << Digits[(n % 10) + 1] >>

\* str(n) of an int
StrInt(n) == IF n < 0 THEN <<"-">> \o StrNat(0 - n) ELSE StrNat(n)

Unsigned(s) ==
    IF startswith(s, "+") \/ startswith(s, "-") THEN Tail(s) ELSE s

\* a decimal integer literal: optional sign, digits
IsIntText(s) == AllDigits(Unsigned(s))

IntOfText(s) ==
    IF startswith(s, "-") THEN 0 - ParseNat(Unsigned(s))
    ELSE ParseNat(Unsigned(s))

RECURSIVE Pow10(_)
Pow10(e) == IF e = 0 THEN 1 ELSE 10 * Pow10(e - 1)

RECURSIVE NormFloat(_, _)
NormFloat(m, e) ==
    IF e > 0 /\ m % 10 = 0 THEN NormFloat(m \div 10, e - 1)
    ELSE [m |-> m, e |-> e]

\* a decimal literal with one point: digits "." digits, one side may be empty
IsPointText(s) ==
    LET u == Unsigned(s)
        p == Find(u, ".")
        ip == Slice(u, 1, p - 1)
        fp == Slice(u, p + 1, Len(u))
    IN  /\ p > 0
        /\ ip \o fp # << >>
        /\ \A k \in 1..Len(ip) : IsDigit(ip[k])
        /\ \A k \in 1..Len(fp) : IsDigit(fp[k])

IsFloatText(s) == IsIntText(s) \/ IsPointText(s)

\* the float a numeric literal denotes, as [m, e] (the sign goes to m)
FloatOfText(s) ==
    LET u    == Unsigned(s)
        p    == Find(u, ".")
        ip   == IF p = 0 THEN u ELSE Slice(u, 1, p - 1)
        fp   == IF p = 0 THEN << >> ELSE Slice(u, p + 1, Len(u))
        mag  == NormFloat(ParseNat(ip \o fp), Len(fp))
    IN  IF startswith(s, "-") THEN [m |-> 0 - mag.m, e |-> mag.e] ELSE mag

RECURSIVE ZeroPad(_, _)
ZeroPad(s, width) == IF Len(s) >= width THEN s ELSE ZeroPad(<<"0">> \o s, width)

\* repr of the float m / 10^e
StrFloat(m, e) ==
    LET a == IF m < 0 THEN 0 - m ELSE m
        sign == IF m < 0 THEN <<"-">> ELSE << >>
    IN  IF e = 0 THEN sign \o StrNat(a) \o <<".", "0">>
        ELSE sign \o StrNat(a \div Pow10(e)) \o <<".">>
                  \o ZeroPad(StrNat(a % Pow10(e)), e)

(***************************************************************************)
(* Cells and DataFrames.  A DataFrame keeps its column names, one dtype    *)
(* per column ("int64", "Int64", "float64", "object"), the cells of each   *)
(* column, and its row count.                                              *)
(***************************************************************************)
IntCell(n)      == [t |-> "int", n |-> n]
FloatCell(m, e) == [t |-> "float", m |-> m, e |-> e]
StrCell(s)      == [t |-> "str", s |-> s]
NaN             == [t |-> "nan"]
RefCell(o)      == [t |-> "ref", obj |-> o]

DataFrame(columns, dtypes, cells, nrows) ==
    [columns |-> columns, dtypes |-> dtypes, cells |-> cells, nrows |-> nrows]

\* position of a column name in df.columns (0 when absent)
ColIndex(df, col) ==
    IF \E j \in 1..Len(df.columns) : df.columns[j] = col
    THEN CHOOSE j \in 1..Len(df.columns) : df.columns[j] = col
    ELSE 0

(***************************************************************************)
(* pandas.read_csv on the lines [col_line] + data_buf, default options.    *)
(* Fields are the comma-separated pieces of a line (the lines of the model *)
(* carry no quote character in a table body).  The tokenizer accepts the   *)
(* header and the first data row as they are and fixes the expected width  *)
(* to the wider of the two; a later row with more fields is a ParserError, *)
(* a row with fewer is padded with missing values; fields beyond the       *)
(* header's, at the front of each row, form the implicit index.            *)
(***************************************************************************)
RECURSIVE SplitOn(_, _)
SplitOn(s, ch) ==
    IF ~Contains(s, ch) THEN << s >>
    ELSE << Slice(s, 1, Find(s, ch) - 1) >>
         \o SplitOn(Slice(s, Find(s, ch) + 1, Len(s)), ch)

\* the fields of one line; a field wrapped in double quotes loses them
Unquote(f) ==
    IF Len(f) >= 2 /\ startswith(f, "\"") /\ endswith(f, "\"") THEN Inner(f)
    ELSE f

Fields(line) ==
    LET raw == SplitOn(line, ",") IN [j \in 1..Len(raw) |-> Unquote(raw[j])]

\* the NA markers of read_csv that the model's alphabets can spell
NaStrings == { << >>, <<"N", "A">> }

Max(a, b) == IF a >= b THEN a ELSE b

\* mangle_dupe_cols: the k-th repeat of a name becomes name.k
MangleDupes(names) ==
    [j \in 1..Len(names) |->
        LET c == Cardinality({q \in 1..(j - 1) : names[q] = names[j]})
        IN  IF c = 0 THEN names[j] ELSE names[j] \o <<".">> \o StrNat(c)]

\* type inference of one column from its field texts
InferColumn(fields) ==
    IF fields = << >> THEN [dtype |-> "object", cells |-> << >>]
    ELSE IF \A k \in 1..Len(fields) : IsIntText(fields[k])
    THEN [dtype |-> "int64",
          cells |-> [k \in 1..Len(fields) |-> IntCell(IntOfText(fields[k]))]]
    ELSE IF \A k \in 1..Len(fields) :
                fields[k] \in NaStrings \/ IsFloatText(fields[k])
    THEN [dtype |-> "float64",
          cells |-> [k \in 1..Len(fields) |->
                        IF fields[k] \in NaStrings THEN NaN
                        ELSE LET f == FloatOfText(fields[k])
                             IN  FloatCell(f.m, f.e)]]
    ELSE [dtype |-> "object",
          cells |-> [k \in 1..Len(fields) |->
                        IF fields[k] \in NaStrings THEN NaN
                        ELSE StrCell(fields[k])]]

\* the field a row holds for a column position (missing: the empty text)
FieldAt(row, j) == IF j <= Len(row) THEN row[j] ELSE << >>

\* the width the tokenizer expects from the second data row on
ExpectedWidth(header, rows) ==
    IF rows = << >> THEN Len(header) ELSE Max(Len(header), Len(rows[1]))

FrameOf(names, cols, nrows) ==
    DataFrame(names,
              [j \in 1..Len(names) |-> cols[j].dtype],
              [j \in 1..Len(names) |-> cols[j].cells],
              nrows)

BuildFrame(header, rows, width) ==
    IF \E k \in 2..Len(rows) : Len(rows[k]) > width
    THEN [ok |-> FALSE, err |-> "ParserError"]
    ELSE [ok |-> TRUE,
          df |-> FrameOf(
              MangleDupes(header),
              [j \in 1..Len(header) |->
                  InferColumn([k \in 1..Len(rows) |->
                      FieldAt(rows[k], j + width - Len(header))])],
              Len(rows))]

ReadRows(header, rows) == BuildFrame(header, rows, ExpectedWidth(header, rows))

read_csv(csv_lines) ==
    ReadRows(Fields(csv_lines[1]),
             [k \in 1..(Len(csv_lines) - 1) |-> Fields(csv_lines[k + 1])])

(***************************************************************************)
(* DataFrame.astype(dtype_map), dtype_map a dict column -> "Int64" or      *)
(* "float".  A key that is no column of the frame is a KeyError.           *)
(***************************************************************************)
CastCell(cell, target) ==
    IF cell.t = "nan" THEN NaN
    ELSE IF target = "Int64"
    THEN (IF cell.t = "float" THEN IntCell(cell.m)
          ELSE IF cell.t = "str" THEN IntCell(IntOfText(cell.s))
          ELSE cell)
    ELSE (IF cell.t = "int" THEN FloatCell(cell.n, 0)
          ELSE IF cell.t = "str"
          THEN LET f == FloatOfText(cell.s) IN FloatCell(f.m, f.e)
          ELSE cell)

\* the exception casting one column raises ("none" when it casts)
CastError(cells, target) ==
    IF \E k \in 1..Len(cells) :
          /\ cells[k].t = "str"
          /\ IF target = "Int64" THEN ~IsIntText(cells[k].s)
             ELSE ~IsFloatText(cells[k].s)
    THEN "ValueError"
    ELSE IF /\ target = "Int64"
            /\ \E k \in 1..Len(cells) : cells[k].t = "float" /\ cells[k].e > 0
    THEN "TypeError"
    ELSE "none"

\* the column after the cast its name asks for, if any
CastColumn(df, dtype_map, j) ==
    IF df.columns[j] \notin DOMAIN dtype_map
    THEN [dtype |-> df.dtypes[j], cells |-> df.cells[j]]
    ELSE [dtype |-> IF dtype_map[df.columns[j]] = "Int64" THEN "Int64"
                    ELSE "float64",
          cells |-> [k \in 1..Len(df.cells[j]) |->
                        CastCell(df.cells[j][k], dtype_map[df.columns[j]])]]

\* the columns whose cast raises
BadCasts(df, dtype_map) ==
    {j \in 1..Len(df.columns) :
        /\ df.columns[j] \in DOMAIN dtype_map
        /\ CastError(df.cells[j], dtype_map[df.columns[j]]) # "none"}

FirstOf(S) == CHOOSE j \in S : \A q \in S : j <= q

astype(df, dtype_map) ==
    IF \E col \in DOMAIN dtype_map : ColIndex(df, col) = 0
    THEN [ok |-> FALSE, err |-> "KeyError"]
    ELSE IF BadCasts(df, dtype_map) # {}
    THEN [ok |-> FALSE,
          err |-> CastError(df.cells[FirstOf(BadCasts(df, dtype_map))],
                            dtype_map[df.columns[FirstOf(BadCasts(df, dtype_map))]])]
    ELSE [ok |-> TRUE,
          df |-> FrameOf(df.columns,
                         [j \in 1..Len(df.columns) |->
                             CastColumn(df, dtype_map, j)],
                         df.nrows)]

(***************************************************************************)
(* parse_jcsv.  A Python dict that keeps insertion order is a record       *)
(* [order, at]: the keys in insertion order and the mapping.  DataFrames   *)
(* are objects: heap[o] is the frame with identity o, and the dict tables  *)
(* maps a block name to the identity of its frame.                         *)
(***************************************************************************)
EmptyODict == [order |-> << >>, at |-> << >>]

Keys(d) == Range(d.order)

ODictSet(d, key, val) ==
    [order |-> IF key \in Keys(d) THEN d.order ELSE Append(d.order, key),
     at    |-> (key :> val) @@ d.at]

K_manifest   == <<"#", "m", "a", "n", "i", "f", "e", "s", "t">>
K_table      == <<"t", "a", "b", "l", "e">>
K_start_line == <<"s", "t", "a", "r", "t", "_", "l", "i", "n", "e">>
K_int        == <<"i", "n", "t">>
K_float      == <<"f", "l", "o", "a", "t">>

IsBlank(line) == strip(line) = << >>

\* the first index >= k of a line that is not blank (Len + 1 when none)
RECURSIVE SkipBlanks(_, _)
SkipBlanks(lines, k) ==
    IF k <= Len(lines) /\ IsBlank(lines[k]) THEN SkipBlanks(lines, k + 1)
    ELSE k

\* dict(zip(cols, vals)): pairs up to the shorter, a repeated key keeps the
\* last value
RECURSIVE ZipDict(_, _, _)
ZipDict(cols, vals, d) ==
    IF cols = << >> \/ vals = << >> THEN d
    ELSE ZipDict(Tail(cols), Tail(vals), DictSet(d, Head(cols), Head(vals)))

StripAll(fields) == [k \in 1..Len(fields) |-> strip(fields[k])]

\* int(text) of Python: surrounding whitespace and a sign are accepted
PyIntOk(s) == IsIntText(strip(s))

\* the loop over the manifest rows, from line idx: the final idx and map,
\* or the exception the row lookup raises
RECURSIVE ManifestRows(_, _, _, _)
ManifestRows(lines, cols, idx, mmap) ==
    IF idx > Len(lines) THEN [err |-> "none", idx |-> idx, map |-> mmap]
    ELSE LET ln == strip(lines[idx])
         IN  IF ln = << >> \/ startswith(ln, "#")
             THEN [err |-> "none", idx |-> idx, map |-> mmap]
             ELSE LET vals == StripAll(SplitOn(ln, ","))
                      row  == ZipDict(cols, vals, EmptyDict)
                  IN  IF K_start_line \notin DOMAIN row
                      THEN [err |-> "KeyError", idx |-> idx, map |-> mmap]
                      ELSE IF ~PyIntOk(row[K_start_line])
                      THEN [err |-> "ValueError", idx |-> idx, map |-> mmap]
                      ELSE IF K_table \notin DOMAIN row
                      THEN [err |-> "KeyError", idx |-> idx, map |-> mmap]
                      ELSE ManifestRows(lines, cols, idx + 1,
                               DictSet(mmap, row[K_table],
                                       IntOfText(strip(row[K_start_line]))))

\* step 1 of parse_jcsv: the optional manifest
ReadManifest(lines) ==
    LET idx == SkipBlanks(lines, 1)
    IN  IF idx <= Len(lines) /\ strip(lines[idx]) = K_manifest
        THEN IF idx + 1 > Len(lines)
             THEN [err |-> "IndexError", idx |-> idx + 1, map |-> EmptyDict]
             ELSE ManifestRows(lines,
                               StripAll(SplitOn(strip(lines[idx + 1]), ",")),
                               idx + 2, EmptyDict)
        ELSE [err |-> "none", idx |-> idx, map |-> EmptyDict]

\* number of leading characters of s that are identifier characters
RECURSIVE IdentRun(_)
IdentRun(s) ==
    IF s # << >> /\ Head(s) \in IdentChars THEN 1 + IdentRun(Tail(s)) ELSE 0

\* header_re = ^#([A-Za-z0-9_]+)(\{.*\})?\s*$ on a stripped line
HeaderMatch(line) ==
    LET n    == IF startswith(line, "#") THEN IdentRun(Tail(line)) ELSE 0
        rest == Slice(line, n + 2, Len(line))
    IN  [ok   |-> /\ n >= 1
                  /\ \/ rest = << >>
                     \/ /\ Len(rest) >= 2
                        /\ startswith(rest, "{")
                        /\ endswith(rest, "}"),
         name |-> Slice(line, 2, n + 1),
         meta |-> rest]

\* the first index >= k of a line that header_re matches (Len + 1 when none)
RECURSIVE NextHeader(_, _)
NextHeader(lines, k) ==
    IF k > Len(lines) THEN k
    ELSE IF HeaderMatch(strip(lines[k])).ok THEN k
    ELSE NextHeader(lines, k + 1)

\* the loop collecting data lines from index k: the lines kept and the index
\* of the line that ended the loop
RECURSIVE CollectData(_, _, _)
CollectData(lines, k, data_buf) ==
    IF k > Len(lines) THEN [i |-> k, data_buf |-> data_buf]
    ELSE IF startswith(strip(lines[k]), "#")
    THEN [i |-> k, data_buf |-> data_buf]
    ELSE CollectData(lines, k + 1,
                     IF IsBlank(lines[k]) THEN data_buf
                     ELSE Append(data_buf, lines[k]))

\* the dtype_map built from md['dtypes']
DtypeMap(dtypes) ==
    LET cast == {col \in DOMAIN dtypes : dtypes[col] \in {K_int, K_float}}
    IN  [col \in cast |-> IF dtypes[col] = K_int THEN "Int64" ELSE "float"]

\* the casting step of a block: the frame stored, or the exception
ApplyDtypes(df, meta) ==
    IF K_dtypes \in DOMAIN meta
    THEN LET dtype_map == DtypeMap(meta[K_dtypes].map)
         IN  IF DOMAIN dtype_map # {} THEN astype(df, dtype_map)
             ELSE [ok |-> TRUE, df |-> df]
    ELSE [ok |-> TRUE, df |-> df]

\* variant: tables.get(ref), without the default: an unknown value is None
Lookup_NoDefault(tbls, cell) ==
    IF cell.t = "str" /\ cell.s \in Keys(tbls) THEN RefCell(tbls.at[cell.s])
    ELSE [t |-> "none"]

\* lambda ref: tables.get(ref, ref), on one cell that is hashable
Lookup(tbls, cell) ==
    IF cell.t = "str" /\ cell.s \in Keys(tbls) THEN RefCell(tbls.at[cell.s])
    ELSE cell

\* df[col] = df[col].apply(...) for each column of refs present in df, in
\* place: the frame as the loop leaves it, and the exception that ended it.
\* A cell that already holds a DataFrame is not hashable: looking it up in
\* tables is a TypeError.
RECURSIVE ResolveColumns(_, _, _)
ResolveColumns(df, refs, tbls) ==
    IF refs = << >> THEN [err |-> "none", df |-> df]
    ELSE LET j == ColIndex(df, Head(refs))
         IN  IF j = 0 THEN ResolveColumns(df, Tail(refs), tbls)
             ELSE IF \E k \in 1..Len(df.cells[j]) : df.cells[j][k].t = "ref"
             THEN [err |-> "TypeError", df |-> df]
             ELSE LET col == [k \in 1..Len(df.cells[j]) |->
                                 Lookup(tbls, df.cells[j][k])]
                  IN  ResolveColumns(
                         DataFrame(df.columns,
                                   [q \in 1..Len(df.columns) |->
                                       IF q = j /\ col # df.cells[j]
                                       THEN "object"
                                       ELSE df.dtypes[q]],
                                   [df.cells EXCEPT ![j] = col],
                                   df.nrows),
                         Tail(refs), tbls)

(***************************************************************************)
(* One iteration of the block loop that meets a header line at index h:    *)
(* the locals of parse_jcsv after it.  status is "next" (the loop goes     *)
(* on), "break" (the input ended before a column line) or "raise".         *)
(***************************************************************************)
NoError == [type |-> "none", site |-> "none"]

\* md of a block header: _parse_metadata of the text inside { }
BlockMeta(meta_str) ==
    IF meta_str # << >> THEN _parse_metadata(Inner(meta_str)) ELSE EmptyDict

Locals(i, tbls, metas, hp, status, err) ==
    [i |-> i, tables |-> tbls, metadata |-> metas, heap |-> hp,
     status |-> status, err |-> err]

\* tables[block_name] = df, after the casts
StoreTable(typed, i, block_name, tbls, metas, hp) ==
    IF ~typed.ok
    THEN Locals(i, tbls, metas, hp, "raise",
                [type |-> typed.err, site |-> "astype"])
    ELSE Locals(i, ODictSet(tbls, block_name, Len(hp) + 1), metas,
                Append(hp, typed.df), "next", NoError)

\* read into pandas, apply dtypes
BuildTable(parsed, i, block_name, meta, tbls, metas, hp) ==
    IF ~parsed.ok
    THEN Locals(i, tbls, metas, hp, "raise",
                [type |-> parsed.err, site |-> "read_csv"])
    ELSE StoreTable(ApplyDtypes(parsed.df, meta), i, block_name, tbls, metas, hp)

ReadBody(col_line, body, block_name, meta, tbls, metas, hp) ==
    BuildTable(read_csv(<< col_line >> \o body.data_buf), body.i, block_name,
               meta, tbls, metas, hp)

\* from the line after the header: c is the index of the column line
ScanBody(lines, c, block_name, meta, tbls, metas, hp) ==
    IF c > Len(lines) THEN Locals(c, tbls, metas, hp, "break", NoError)
    ELSE ReadBody(lines[c], CollectData(lines, c + 1, << >>), block_name,
                  meta, tbls, metas, hp)

ScanHeader(lines, h, m, meta, tbls, metas, hp) ==
    ScanBody(lines, SkipBlanks(lines, h + 1), m.name, meta, tbls,
             ODictSet(metas, m.name, meta), hp)

ScanStep(lines, h, tbls, metas, hp) ==
    ScanHeader(lines, h, HeaderMatch(strip(lines[h])),
               BlockMeta(HeaderMatch(strip(lines[h])).meta), tbls, metas, hp)

(***************************************************************************)
(* export_jcsv(tables, path, descriptions).  tables is an ordered dict     *)
(* name -> DataFrame, descriptions a dict name -> text.  The result is the *)
(* sequence of lines written to the file.                                  *)
(***************************************************************************)
\* step 1: the number of lines the manifest takes
ManifestLineCount(tbls) == 1 + 1 + Len(tbls.order) + 1

\* variant: the cursor starts two lines after the manifest line count
StartCursor_PlusTwo(tbls) == ManifestLineCount(tbls) + 2

\* the cursor before the first table
StartCursor(tbls) == ManifestLineCount(tbls) + 1

\* variant: the empty line before the next block is not counted
BlockLineCount_NoEmptyLine(df) == 2 + df.nrows

\* the lines one block accounts for: title, column header, rows, empty line
BlockLineCount(df) == 2 + df.nrows + 1

\* step 2: start_lines[name] for the k-th table of the dict
RECURSIVE StartLine(_, _)
StartLine(tbls, k) ==
    IF k = 1 THEN StartCursor(tbls)
    ELSE StartLine(tbls, k - 1) + BlockLineCount(tbls.at[tbls.order[k - 1]])

\* descriptions.get(name, "")
DescOf(descs, name) == IF name \in DOMAIN descs THEN descs[name] ELSE << >>

\* step 3a: one manifest row
ManifestRow(tbls, descs, k) ==
    LET name == tbls.order[k]
        desc == DescOf(descs, name)
        shown == IF Contains(desc, ",") THEN <<"\"">> \o desc \o <<"\"">>
                 ELSE desc
    IN  name \o <<",">> \o StrInt(StartLine(tbls, k)) \o <<",">> \o shown

\* the type tag written for a dtype: "int" in dt, "float" in dt, else str
DtypeTag(dtype) ==
    IF dtype = "int64" THEN K_int
    ELSE IF dtype = "float64" THEN K_float
    ELSE <<"s", "t", "r">>

\* comment.replace('"', '\\"')
RECURSIVE EscapeQuotes(_)
EscapeQuotes(s) ==
    IF s = << >> THEN << >>
    ELSE (IF Head(s) = "\"" THEN <<"\\", "\"">> ELSE << Head(s) >>)
         \o EscapeQuotes(Tail(s))

\* step 3b: the title line #name{meta}
TitleLine(name, df, descs) ==
    LET dt_specs == [j \in 1..Len(df.columns) |->
                        df.columns[j] \o <<":">> \o DtypeTag(df.dtypes[j])]
        meta == K_dtypes \o <<"=", "[">> \o Join(dt_specs, <<",">>) \o <<"]">>
        comment == DescOf(descs, name)
        full == IF comment # << >>
                THEN meta \o <<",">> \o <<"c", "o", "m", "m", "e", "n", "t", "=">>
                          \o <<"\"">> \o EscapeQuotes(comment) \o <<"\"">>
                ELSE meta
    IN  <<"#">> \o name \o <<"{">> \o full \o <<"}">>

\* the text to_csv writes for one cell (the cells of the model need no quoting)
FormatCell(cell) ==
    IF cell.t = "int" THEN StrInt(cell.n)
    ELSE IF cell.t = "float" THEN StrFloat(cell.m, cell.e)
    ELSE IF cell.t = "str" THEN cell.s
    ELSE << >>

\* csv.writer quotes a lone empty field
CsvRow(fields) ==
    IF Len(fields) = 1 /\ fields[1] = << >> THEN <<"\"", "\"">>
    ELSE Join(fields, <<",">>)

\* df.to_csv(f, index=False): the column header line, then one line per row
to_csv(df) ==
    << CsvRow(df.columns) >>
    \o [k \in 1..df.nrows |->
           CsvRow([j \in 1..Len(df.columns) |-> FormatCell(df.cells[j][k])])]

RECURSIVE BlockLines(_, _, _)
BlockLines(tbls, descs, k) ==
    IF k > Len(tbls.order) THEN << >>
    ELSE LET name == tbls.order[k]
         IN  << << >>, TitleLine(name, tbls.at[name], descs) >>
             \o to_csv(tbls.at[name])
             \o BlockLines(tbls, descs, k + 1)

export_jcsv(tbls, descs) ==
    << K_manifest,
       K_table \o <<",">> \o K_start_line \o <<",">>
               \o <<"d", "e", "s", "c", "r", "i", "p", "t", "i", "o", "n">> >>
    \o [k \in 1..Len(tbls.order) |-> ManifestRow(tbls, descs, k)]
    \o BlockLines(tbls, descs, 1)

(***************************************************************************)
(* Inputs of export_jcsv: table maps t1, t2, ... of one to MaxTables       *)
(* frames, each frame of one of three shapes with at most MaxRows rows.    *)
(* No cell needs CSV quoting.                                              *)
(***************************************************************************)
Letters == <<"a", "b", "c", "d", "e", "f", "g", "h">>

\* the k-th cell of a column of each kind
IntAt(k)     == IntCell(6 * k)
FloatAt(k)   == IF k = 2 THEN NaN ELSE FloatCell(10 * k + 5, 1)
TextAt(k)    == StrCell(<< Letters[k] >>)
NumTextAt(k) == StrCell(StrNat(k))

Col_c == <<"c">>
Col_d == <<"d">>

FrameKinds == {"float", "numtext", "two"}

\* a float column c; a text column c of numerals; an int column c beside a
\* text column d
Frame(kind, n) ==
    IF kind = "float"
    THEN DataFrame(<<Col_c>>, <<"float64">>,
                   << [k \in 1..n |-> FloatAt(k)] >>, n)
    ELSE IF kind = "numtext"
    THEN DataFrame(<<Col_c>>, <<"object">>,
                   << [k \in 1..n |-> NumTextAt(k)] >>, n)
    ELSE DataFrame(<<Col_c, Col_d>>, <<"int64", "object">>,
                   << [k \in 1..n |-> IntAt(k)], [k \in 1..n |-> TextAt(k)] >>,
                   n)

Frames == {Frame(kind, n) : kind \in FrameKinds, n \in 0..MaxRows}

TableName(k) == <<"t">> \o StrNat(k)

ODictOf(frames) ==
    [order |-> [k \in 1..Len(frames) |-> TableName(k)],
     at    |-> [name \in {TableName(k) : k \in 1..Len(frames)} |->
                   frames[CHOOSE k \in 1..Len(frames) : TableName(k) = name]]]

TableMaps ==
    {ODictOf(frames) :
        frames \in UNION {[1..n -> Frames] : n \in 1..MaxTables}}

\* no descriptions, or a description of the first table with a comma and a
\* double quote in it
DescriptionsFor(tbls) ==
    {EmptyDict, (tbls.order[1] :> <<"x", ",", "\"", "y">>)}

(***************************************************************************)
(* Inputs of parse_jcsv: documents of at most MaxBlocks blocks, each a     *)
(* header line from HeaderPool followed by a body from BodyPool, and the   *)
(* same after a manifest section from ManifestPool.                        *)
(***************************************************************************)
Name_A == <<"A">>
Name_B == <<"B">>

HeaderPool ==
    { <<"#">> \o Name_A,
      \* #A{refs=[c]}
      <<"#">> \o Name_A \o <<"{", "r", "e", "f", "s", "=", "[", "c", "]", "}">>,
      <<"#">> \o Name_B,
      \* #B{refs=[c,c]}
      <<"#">> \o Name_B \o <<"{", "r", "e", "f", "s", "=", "[", "c", ",", "c", "]", "}">>,
      \* #B{dtypes=[x:int]}
      <<"#">> \o Name_B \o <<"{", "d", "t", "y", "p", "e", "s", "=", "[", "x", ":", "i", "n", "t", "]", "}">>,
      \* #B{dtypes=[c:int,x:str],refs=[c]}
      <<"#">> \o Name_B \o <<"{", "d", "t", "y", "p", "e", "s", "=", "[", "c", ":", "i", "n", "t", ",", "x", ":", "s", "t", "r", "]", ",", "r", "e", "f", "s", "=", "[", "c", "]", "}">> }

\* no line at all; two columns naming a table; a table name beside a value
\* that names none; numerals around a blank line; a row with too many fields
BodyPool ==
    { << >>,
      << <<"c", ",", "d">>, <<"A", ",", "A">> >>,
      << <<"c">>, <<"B">>, <<"x">> >>,
      << <<"c">>, <<"1">>, << >>, <<"2">> >>,
      << <<"c">>, <<"1">>, <<"1", ",", "2">> >> }

Blocks == {<< h >> \o b : h \in HeaderPool, b \in BodyPool}

RECURSIVE Flatten(_)
Flatten(seqs) == IF seqs = << >> THEN << >> ELSE Head(seqs) \o Flatten(Tail(seqs))

BlockDocs(n) == {Flatten(bs) : bs \in UNION {[1..k -> Blocks] : k \in 0..n}}

ManifestPool ==
    { \* a well-formed manifest
      << K_manifest, K_table \o <<",">> \o K_start_line, <<"A", ",", "2">>, << >> >>,
      \* the header lacks the column table
      << K_manifest, <<"n", "a", "m", "e", ",">> \o K_start_line, <<"A", ",", "2">>, << >> >>,
      \* the header lacks the column start_line
      << K_manifest, K_table \o <<",", "l", "i", "n", "e">>, <<"A", ",", "2">>, << >> >>,
      \* start_line is no integer
      << K_manifest, K_table \o <<",">> \o K_start_line, <<"A", ",", "x">>, << >> >>,
      \* the file ends after the marker line
      << K_manifest >> }

Documents ==
    BlockDocs(MaxBlocks) \cup {m \o d : m \in ManifestPool, d \in BlockDocs(1)}

(***************************************************************************)
(* State.                                                                  *)
(***************************************************************************)
VARIABLES
    pc,            \* position of the run
    arg,           \* the text given to the metadata grammar
    parts,         \* result of _split_top_commas(arg)
    md,            \* result of _parse_metadata(arg)
    tables_in,     \* export_jcsv: the ordered dict tables
    descriptions,  \* export_jcsv: the dict descriptions
    file,          \* the lines of the .jcsv file
    i,             \* parse_jcsv: idx, then i
    manifest_map,  \* parse_jcsv: table -> start_line
    tables,        \* parse_jcsv: block name -> DataFrame (its identity)
    metadata,      \* parse_jcsv: block name -> metadata dict
    heap,          \* the DataFrames parse_jcsv has built
    r,             \* resolver: position in metadata.items()
    err            \* the exception that ended the call

vars == <<pc, arg, parts, md, tables_in, descriptions, file, i, manifest_map,
          tables, metadata, heap, r, err>>

grammar_vars == <<arg, parts, md>>
writer_vars  == <<tables_in, descriptions>>
parser_vars  == <<i, manifest_map, tables, metadata, heap, r, err>>

NoParse ==
    /\ i = 0
    /\ manifest_map = EmptyDict
    /\ tables = EmptyODict
    /\ metadata = EmptyODict
    /\ heap = << >>
    /\ r = 0
    /\ err = NoError

\* a call of the metadata grammar on a text
InitGrammar ==
    /\ pc = "grammar"
    /\ arg \in MetaInputs
    /\ parts = << >> /\ md = EmptyDict
    /\ tables_in = EmptyODict /\ descriptions = EmptyDict
    /\ file = << >>
    /\ NoParse

\* a call of export_jcsv on a table map
InitWriter ==
    /\ pc = "export"
    /\ arg = << >> /\ parts = << >> /\ md = EmptyDict
    /\ tables_in \in TableMaps
    /\ descriptions \in DescriptionsFor(tables_in)
    /\ file = << >>
    /\ NoParse

\* a call of parse_jcsv on a file
InitParser ==
    /\ pc = "parse"
    /\ arg = << >> /\ parts = << >> /\ md = EmptyDict
    /\ tables_in = EmptyODict /\ descriptions = EmptyDict
    /\ file \in Documents
    /\ NoParse

Init == InitGrammar \/ InitWriter \/ InitParser

\* _split_top_commas(arg)
SplitTopCommas ==
    /\ pc = "grammar"
    /\ parts' = _split_top_commas(arg)
    /\ pc' = "split_done"
    /\ UNCHANGED <<arg, md, writer_vars, file, parser_vars>>

\* _parse_metadata(arg)
ParseMetadata ==
    /\ pc = "grammar"
    /\ md' = _parse_metadata(arg)
    /\ pc' = "meta_done"
    /\ UNCHANGED <<arg, parts, writer_vars, file, parser_vars>>

\* export_jcsv(tables_in, path, descriptions); the file is then parsed
Export ==
    /\ pc = "export"
    /\ file' = export_jcsv(tables_in, descriptions)
    /\ pc' = "parse"
    /\ UNCHANGED <<grammar_vars, writer_vars, parser_vars>>

\* parse_jcsv, step 1: the manifest
ParseManifest ==
    /\ pc = "parse"
    /\ LET res == ReadManifest(file)
       IN  /\ i' = res.idx
           /\ manifest_map' = res.map
           /\ IF res.err = "none"
              THEN pc' = "scan" /\ err' = err
              ELSE /\ pc' = "raised"
                   /\ err' = [type |-> res.err, site |-> "manifest"]
    /\ UNCHANGED <<grammar_vars, writer_vars, file, tables, metadata, heap, r>>

\* parse_jcsv, step 2: the lines up to the next header are skipped and the
\* block at that header is parsed
ScanBlock ==
    /\ pc = "scan"
    /\ NextHeader(file, i) <= Len(file)
    /\ LET res == ScanStep(file, NextHeader(file, i), tables, metadata, heap)
       IN  /\ i' = res.i
           /\ tables' = res.tables
           /\ metadata' = res.metadata
           /\ heap' = res.heap
           /\ err' = res.err
           /\ pc' = IF res.status = "next" THEN "scan"
                    ELSE IF res.status = "break" THEN "resolve"
                    ELSE "raised"
           /\ r' = IF res.status = "break" THEN 1 ELSE r
    /\ UNCHANGED <<grammar_vars, writer_vars, file, manifest_map>>

\* parse_jcsv, step 2: no header line is left, the block loop ends
ScanEnd ==
    /\ pc = "scan"
    /\ NextHeader(file, i) > Len(file)
    /\ i' = Len(file) + 1
    /\ pc' = "resolve"
    /\ r' = 1
    /\ UNCHANGED <<grammar_vars, writer_vars, file, manifest_map, tables,
                   metadata, heap, err>>

\* parse_jcsv, step 3: one iteration of the loop over metadata.items()
ResolveRefs ==
    /\ pc = "resolve"
    /\ r <= Len(metadata.order)
    /\ LET tbl  == metadata.order[r]
           meta == metadata.at[tbl]
       IN  IF K_refs \notin DOMAIN meta
           THEN r' = r + 1 /\ UNCHANGED <<pc, heap, err>>
           ELSE IF tbl \notin Keys(tables)
           THEN /\ pc' = "raised"
                /\ err' = [type |-> "KeyError", site |-> "resolve"]
                /\ UNCHANGED <<heap, r>>
           ELSE LET o   == tables.at[tbl]
                    res == ResolveColumns(heap[o], IterItems(meta[K_refs]),
                                          tables)
                IN  /\ heap' = [heap EXCEPT ![o] = res.df]
                    /\ IF res.err = "none"
                       THEN r' = r + 1 /\ UNCHANGED <<pc, err>>
                       ELSE /\ pc' = "raised"
                            /\ err' = [type |-> res.err, site |-> "resolve"]
                            /\ r' = r
    /\ UNCHANGED <<grammar_vars, writer_vars, file, i, manifest_map, tables,
                   metadata>>

\* parse_jcsv returns tables
Return ==
    /\ pc = "resolve"
    /\ r > Len(metadata.order)
    /\ pc' = "done"
    /\ UNCHANGED <<grammar_vars, writer_vars, file, parser_vars>>

Next ==
    \/ SplitTopCommas
    \/ ParseMetadata
    \/ Export
    \/ ParseManifest
    \/ ScanBlock
    \/ ScanEnd
    \/ ResolveRefs
    \/ Return

Spec == Init /\ [][Next]_vars

(***************************************************************************)
(* Properties.                                                             *)
(***************************************************************************)
\* the run is a call of export_jcsv whose file has been written
Exported == tables_in.order # << >> /\ file # << >>

\* parse_jcsv has returned or raised
Terminated == pc \in {"done", "raised"}

\* line is the title line #name{...} of the table called name
IsTitleOf(line, name) ==
    /\ Len(line) >= Len(name) + 2
    /\ SubSeq(line, 1, Len(name) + 2) = <<"#">> \o name \o <<"{">>

\* the 1-based numbers of the lines of the text that are title lines of name
TitleLines(lines, name) == {n \in 1..Len(lines) : IsTitleOf(lines[n], name)}

\* the start_line written in the k-th manifest row of the text
WrittenStartLine(lines, k) == IntOfText(SplitOn(lines[2 + k], ",")[2])

\* C1: in the text export_jcsv emits, the k-th manifest row names the k-th
\* table, and the start_line written there is the 1-based number of the one
\* line of the text that is the title line #name{...} of that table.
C1_ManifestOffsets ==
    Exported =>
        \A k \in 1..Len(tables_in.order) :
            /\ SplitOn(file[2 + k], ",")[1] = tables_in.order[k]
            /\ TitleLines(file, tables_in.order[k])
                   = {WrittenStartLine(file, k)}

\* a file written for two tables, the first with two rows, the second with one
C1_Witness ==
    /\ Exported
    /\ Len(tables_in.order) = 2
    /\ tables_in.at[TableName(1)].nrows = 2
    /\ tables_in.at[TableName(2)].nrows = 1
    /\ WrittenStartLine(file, 2) = 11

\* the table map holding the single table t1 with two rows has been written
SingleT1 ==
    /\ Exported
    /\ tables_in.order = << TableName(1) >>
    /\ tables_in.at[TableName(1)].nrows = 2

\* C2 as stated: the starting cursor is the manifest line count 2 + n + 1
\* plus 2, so that for the single table t1 with two rows the start_line
\* written is 6 and the 6th emitted line is the title line of t1.
C2_CursorPlusTwo ==
    /\ Exported =>
           WrittenStartLine(file, 1) = (2 + Len(tables_in.order) + 1) + 2
    /\ SingleT1 =>
           /\ WrittenStartLine(file, 1) = 6
           /\ IsTitleOf(file[6], TableName(1))

\* C2 amended: the starting cursor is the manifest line count 2 + n + 1
\* plus 1, so that for the single table t1 with two rows the start_line
\* written is 5 and the 5th emitted line is the title line of t1.
C2_CursorPlusOne ==
    /\ Exported =>
           WrittenStartLine(file, 1) = (2 + Len(tables_in.order) + 1) + 1
    /\ SingleT1 =>
           /\ WrittenStartLine(file, 1) = 5
           /\ IsTitleOf(file[5], TableName(1))

C2_Witness ==
    /\ SingleT1
    /\ file[3] = TableName(1) \o <<",", "5", ",">>

\* the coarse column type of the data model: text, int or float
CoarseType(dtype) ==
    IF dtype \in {"int64", "Int64"} THEN "int"
    ELSE IF dtype = "float64" THEN "float"
    ELSE "text"

\* the table map parse_jcsv returned equals the one given to export_jcsv
SameTableMap ==
    /\ tables.order = tables_in.order
    /\ \A name \in Keys(tables_in) :
           LET given == tables_in.at[name]
               got   == heap[tables.at[name]]
           IN  /\ got.columns = given.columns
               /\ got.nrows = given.nrows
               /\ \A j \in 1..Len(given.columns) :
                      /\ CoarseType(got.dtypes[j]) = CoarseType(given.dtypes[j])
                      /\ got.cells[j] = given.cells[j]

\* C3: round trip.  parse_jcsv of the text export_jcsv wrote returns, and
\* the table map it returns has the names, the order, the column names,
\* the column types and the cell values of the table map written.
C3_RoundTrip ==
    (Exported /\ Terminated) => (pc = "done" /\ SameTableMap)

\* the blocks the scanner meets from line i on: for each the header line
\* number, the name, the metadata and the CSV lines (empty when the input
\* ends before a column line)
RECURSIVE BlockList(_, _)
BlockList(lines, k) ==
    LET h == NextHeader(lines, k)
        c == SkipBlanks(lines, h + 1)
        m == HeaderMatch(strip(lines[h]))
        body == CollectData(lines, c + 1, << >>)
    IN  IF h > Len(lines) THEN << >>
        ELSE IF c > Len(lines)
        THEN << [h |-> h, name |-> m.name, meta |-> BlockMeta(m.meta),
                 csv |-> << >>] >>
        ELSE << [h |-> h, name |-> m.name, meta |-> BlockMeta(m.meta),
                 csv |-> << lines[c] >> \o body.data_buf] >>
             \o BlockList(lines, body.i)

\* the manifest section of the text: the index of its column line (0 when
\* the text has no manifest with a column line)
ManifestColsAt(lines) ==
    LET k == SkipBlanks(lines, 1)
    IN  IF k + 1 <= Len(lines) /\ strip(lines[k]) = K_manifest THEN k + 1
        ELSE 0

\* the index of the first line after the manifest rows
RECURSIVE ManifestEnd(_, _)
ManifestEnd(lines, k) ==
    IF k > Len(lines) THEN k
    ELSE IF IsBlank(lines[k]) \/ startswith(strip(lines[k]), "#") THEN k
    ELSE ManifestEnd(lines, k + 1)

\* some manifest row lacks table or start_line, or start_line is no integer
ManifestDefect(lines) ==
    /\ ManifestColsAt(lines) > 0
    /\ \E k \in (ManifestColsAt(lines) + 1)
                    ..(ManifestEnd(lines, ManifestColsAt(lines) + 1) - 1) :
           LET cols == StripAll(SplitOn(strip(lines[ManifestColsAt(lines)]), ","))
               row  == ZipDict(cols, StripAll(SplitOn(strip(lines[k]), ",")),
                               EmptyDict)
           IN  \/ K_table \notin DOMAIN row
               \/ K_start_line \notin DOMAIN row
               \/ ~PyIntOk(row[K_start_line])

\* C4: a manifest row that lacks a required column (or whose start_line is
\* no integer) does not end the parse: parse_jcsv does not raise from the
\* manifest step, and the blocks after the manifest section are scanned,
\* every block name among them being recorded.
C4_ManifestFailureIsolated ==
    (ManifestDefect(file) /\ Terminated) =>
        /\ err.site # "manifest"
        /\ LET after == BlockList(file,
                            ManifestEnd(file, ManifestColsAt(file) + 1))
           IN  \A b \in 1..Len(after) : after[b].name \in Keys(metadata)

\* the blocks of the file, scanned from the end of the manifest section
FileBlocks == BlockList(file, ReadManifest(file).idx)

Unparseable(block) == block.csv # << >> /\ ~read_csv(block.csv).ok

\* the manifest step of the file succeeds
ManifestOk == ReadManifest(file).err = "none"

\* C5: when the body of a block cannot be parsed as CSV, the parse goes on:
\* parse_jcsv does not raise from read_csv, and every block of the file
\* whose body can be parsed and cast is present in the table map.
C5_BlockFailureIsolated ==
    (/\ Terminated
     /\ ManifestOk
     /\ \E b \in 1..Len(FileBlocks) : Unparseable(FileBlocks[b])) =>
        /\ err.site # "read_csv"
        /\ \A b \in 1..Len(FileBlocks) :
               (/\ FileBlocks[b].csv # << >>
                /\ read_csv(FileBlocks[b].csv).ok
                /\ ApplyDtypes(read_csv(FileBlocks[b].csv).df,
                               FileBlocks[b].meta).ok)
                   => FileBlocks[b].name \in Keys(tables)

\* the block loop run to its end from line k, as the scanner's local state
RECURSIVE ParseBlocks(_, _, _, _, _)
ParseBlocks(lines, k, tbls, metas, hp) ==
    IF NextHeader(lines, k) > Len(lines)
    THEN Locals(Len(lines) + 1, tbls, metas, hp, "end", NoError)
    ELSE LET res == ScanStep(lines, NextHeader(lines, k), tbls, metas, hp)
         IN  IF res.status = "next"
             THEN ParseBlocks(lines, res.i, res.tables, res.metadata, res.heap)
             ELSE res

\* the DataFrames as the block loop built them, before reference resolution
BuiltHeap ==
    ParseBlocks(file, ReadManifest(file).idx, EmptyODict, EmptyODict, << >>).heap

\* the column names listed under refs in the metadata of block tbl
RefColumns(tbl) ==
    IF tbl \in Keys(metadata) /\ K_refs \in DOMAIN metadata.at[tbl]
    THEN Range(IterItems(metadata.at[tbl][K_refs]))
    ELSE {}

\* C6: after parse_jcsv has returned, in the table of every block, each
\* cell of a column listed under the block's refs whose parsed value is the
\* name of a table holds that table, the very object the table map stores
\* under that name, wherever the target block stands in the file; every
\* other cell of such a column, every column not listed and every table of
\* a block without refs are as the block loop built them.
C6_RefsResolved ==
    pc = "done" =>
        /\ Len(heap) = Len(BuiltHeap)
        /\ \A tbl \in Keys(tables) :
               LET built == BuiltHeap[tables.at[tbl]]
                   now   == heap[tables.at[tbl]]
               IN  /\ now.columns = built.columns
                   /\ \A j \in 1..Len(built.columns) :
                      \A k \in 1..Len(built.cells[j]) :
                          now.cells[j][k] =
                              IF /\ built.columns[j] \in RefColumns(tbl)
                                 /\ built.cells[j][k].t = "str"
                                 /\ built.cells[j][k].s \in Keys(tables)
                              THEN RefCell(tables.at[built.cells[j][k].s])
                              ELSE built.cells[j][k]
        /\ \A o \in 1..Len(heap) :
               o \notin {tables.at[tbl] : tbl \in Keys(tables)}
                   => heap[o] = BuiltHeap[o]

\* parse_jcsv returned a table with a cell resolved to a table whose block
\* comes later in the file, beside a cell that names no table
C6_Witness ==
    /\ pc = "done"
    /\ \E o \in 1..Len(heap) : \E j \in 1..Len(heap[o].columns) :
           /\ \E k \in 1..heap[o].nrows :
                  /\ heap[o].cells[j][k].t = "ref"
                  /\ heap[o].cells[j][k].obj > o
                  /\ heap[o].cells[j][k].obj \in {tables.at[t] : t \in Keys(tables)}
           /\ \E k \in 1..heap[o].nrows : heap[o].cells[j][k] = StrCell(<<"x">>)

\* the columns the dtypes map of a block names that its table does not have
AbsentDtypeColumns(block) ==
    IF K_dtypes \in DOMAIN block.meta
    THEN {col \in DOMAIN block.meta[K_dtypes].map :
              ColIndex(read_csv(block.csv).df, col) = 0}
    ELSE {}

\* C7: a dtypes entry that names a column absent from the table header is
\* ignored: casting raises no KeyError, and once parse_jcsv has ended
\* without another failure the table of such a block is in the table map.
C7_AbsentDtypeColumnIgnored ==
    (/\ Terminated
     /\ ManifestOk
     /\ \E b \in 1..Len(FileBlocks) :
            /\ FileBlocks[b].csv # << >>
            /\ read_csv(FileBlocks[b].csv).ok
            /\ AbsentDtypeColumns(FileBlocks[b]) # {}) =>
        /\ ~(err.site = "astype" /\ err.type = "KeyError")
        /\ pc = "done" =>
               \A b \in 1..Len(FileBlocks) :
                   (/\ FileBlocks[b].csv # << >>
                    /\ AbsentDtypeColumns(FileBlocks[b]) # {})
                       => FileBlocks[b].name \in Keys(tables)

\* the top-level tokens of arg that contain =
KeyTokens == {k \in 1..Len(_split_top_commas(arg)) :
                 Contains(_split_top_commas(arg)[k], "=")}

TokenKey(k) == strip(SplitFirst(_split_top_commas(arg)[k], "=")[1])

TokenVal(k) == strip(SplitFirst(_split_top_commas(arg)[k], "=")[2])

\* the last token that sets key
LastTokenOf(key) ==
    CHOOSE k \in KeyTokens :
        TokenKey(k) = key /\ \A q \in KeyTokens : TokenKey(q) = key => q <= k

Bracketed(val) == startswith(val, "[") /\ endswith(val, "]")

\* the items of the value of a token: the pieces of a bracketed list, the
\* characters of any other value
ValueItems(val) ==
    IF Bracketed(val)
    THEN LET pieces == _split_top_commas(strip(Inner(val)))
         IN  [q \in 1..Len(pieces) |-> StripQuotes(pieces[q])]
    ELSE [q \in 1..Len(StripQuotes(val)) |-> << StripQuotes(val)[q] >>]

\* the column an item col:type names
ItemColumn(item) == strip(SplitFirst(item, ":")[1])

\* the last item of items that names column col
LastItemOf(items, col) ==
    CHOOSE q \in 1..Len(items) :
        /\ Contains(items[q], ":") /\ ItemColumn(items[q]) = col
        /\ \A p \in 1..Len(items) :
               (Contains(items[p], ":") /\ ItemColumn(items[p]) = col) => p <= q

\* dtypes=[id:int,name:str],refs=[orders] parsed
Ex_meta_parsed ==
    (K_dtypes :> [kind |-> "map",
                  map  |-> (<<"i", "d">> :> K_int
                            @@ <<"n", "a", "m", "e">> :> <<"s", "t", "r">>)])
    @@ (K_refs :> [kind |-> "list",
                   items |-> << <<"o", "r", "d", "e", "r", "s">> >>])

\* C8: _parse_metadata returns a mapping for every text.  Its keys are the
\* trimmed texts before the first = of the top-level tokens that contain =;
\* a key other than dtypes holds a List when the value of its last token is
\* bracketed and the quote-stripped Scalar otherwise; dtypes holds a Map
\* whose columns are those of the items that contain a colon, each mapped
\* to the text after its first colon; the documented example yields
\* {dtypes: {id: int, name: str}, refs: [orders]}.
C8_ParseMetadata ==
    pc = "meta_done" =>
        /\ DOMAIN md = {TokenKey(k) : k \in KeyTokens}
        /\ \A key \in DOMAIN md :
               LET val == TokenVal(LastTokenOf(key))
                   items == ValueItems(val)
                   colon == {q \in 1..Len(items) : Contains(items[q], ":")}
               IN  IF key = K_dtypes
                   THEN /\ md[key].kind = "map"
                        /\ DOMAIN md[key].map
                               = {ItemColumn(items[q]) : q \in colon}
                        /\ \A q \in colon :
                               md[key].map[ItemColumn(items[q])]
                                   = strip(SplitFirst(
                                         items[LastItemOf(items, ItemColumn(items[q]))],
                                         ":")[2])
                   ELSE IF Bracketed(val)
                   THEN md[key] = [kind |-> "list", items |-> items]
                   ELSE md[key] = [kind |-> "scalar", s |-> StripQuotes(val)]
        /\ arg = Ex_meta => md = Ex_meta_parsed

\* a metadata text with a token without = beside a scalar, a list and a
\* dtypes value has been parsed
C8_Witness ==
    /\ pc = "meta_done"
    /\ \/ arg = Ex_meta /\ md = Ex_meta_parsed
       \/ /\ arg = Ex_quote
          /\ md = (<<"x">> :> [kind |-> "scalar", s |-> <<"a", " ", "b">>])

\* the bracket depth after the k first characters of s
RECURSIVE DepthAfter(_, _)
DepthAfter(s, k) ==
    IF k = 0 THEN 0
    ELSE DepthAfter(s, k - 1)
         + (IF s[k] = "[" THEN 1 ELSE IF s[k] = "]" THEN 0 - 1 ELSE 0)

\* the positions of the commas of s that stand at depth <= 0
SeparatorsAtDepthLE0(s) ==
    {k \in 1..Len(s) : s[k] = "," /\ DepthAfter(s, k) <= 0}

\* the trimmed pieces of s between the positions seps, from position k on
RECURSIVE PiecesBetween(_, _, _)
PiecesBetween(s, seps, k) ==
    IF \E q \in seps : q >= k
    THEN LET q == CHOOSE q \in seps : q >= k /\ \A p \in seps : p >= k => q <= p
         IN  << strip(Slice(s, k, q - 1)) >> \o PiecesBetween(s, seps, q + 1)
    ELSE << strip(Slice(s, k, Len(s))) >>

\* C9: _split_top_commas splits at every comma whose bracket depth is not
\* greater than 0: the result is the list of the trimmed pieces between the
\* commas at depth <= 0, also for a text with an unbalanced ]; and
\* a,[b,c],d yields a, [b,c], d.
C9_SplitAtDepthLE0 ==
    pc = "split_done" =>
        /\ parts = PiecesBetween(arg, SeparatorsAtDepthLE0(arg), 1)
        /\ arg = Ex_split =>
               parts = << <<"a">>, <<"[", "b", ",", "c", "]">>, <<"d">> >>

\* C10: when the reference-resolution pass starts, every block name of the
\* metadata map is a key of the table map.
C10_MetadataKeysHaveTables ==
    pc = "resolve" => Keys(metadata) \subseteq Keys(tables)

====
